---- MODULE Spec2Model ----
(***************************************************************************)
(* A model of webmap_generator.py: the icon rule resolver                  *)
(* (icon_for_feature), the popup formatter (all_fields_popup_html), the    *)
(* marker loop (add_points_markers) and the entry point (generate_webmap). *)
(*                                                                         *)
(* Text is modelled as a sequence of one-character strings, so that        *)
(* str.strip, str.casefold, str.endswith and str.startswith are computed   *)
(* character by character.                                                 *)
(***************************************************************************)
EXTENDS Integers, Sequences, FiniteSets, TLC

VARIABLES
    icon_rules,    \* the rule set: field, mapping (an ordered dict), default
    props,         \* the properties handed to a pure function
    result,        \* what the pure function returned
    features,      \* the rows of the GeoDataFrame, in iterrows() order
    embed_icons,   \* add_points_markers' flag
    idx,           \* rows of the loop of add_points_markers already visited
    target_layer,  \* the markers added to the layer, in order
    icon_gets,     \* every requests.get of url_to_data_uri, in order
    urls,          \* generate_webmap's kml_url and points_url
    pts_rows,      \* the rows the points source holds
    io_log,        \* every download and read_file of generate_webmap, in order
    exc,           \* the exception that left generate_webmap, or None
    saved,         \* the file names m.save wrote
    out_html,      \* the file names generate_webmap returned
    pc

resolverVars == <<icon_rules, props, result>>

markerVars == <<features, embed_icons, idx, target_layer, icon_gets>>

generateVars == <<urls, pts_rows, io_log, exc, saved, out_html>>

vars == <<icon_rules, props, result, features, embed_icons, idx, target_layer,
          icon_gets, urls, pts_rows, io_log, exc, saved, out_html, pc>>

\* ------------------------------------------------------------- bounds
\* longest text (mapping key, property value) that is enumerated
MaxLen == 2
\* largest number of entries of icon_rules["mapping"]
MaxRules == 2

\* ------------------------------------------------------------- text
\* Mapping keys are written with an upper-case letter, property values with
\* its lower-case form, so that a key and a value agree in a letter only
\* after case folding; both have the whitespace and the wildcard marker.
Alphabet == {"a", " ", "*"}

KeyAlphabet == {"A", " ", "*"}

Texts == UNION {[1..n -> Alphabet] : n \in 0..MaxLen}

KeyTexts == UNION {[1..n -> KeyAlphabet] : n \in 0..MaxLen}

\* a property value: a str, or a nested structure (an empty list or dict)
Str(s) == [type |-> "str", val |-> s]
EmptyList == [type |-> "list", val |-> <<>>]
EmptyDict == [type |-> "dict", val |-> <<>>]

\* str(v): a str is itself, an empty list is "[]", an empty dict is "{}"
py_str(v) ==
    CASE v.type = "str"  -> v.val
      [] v.type = "list" -> <<"[", "]">>
      [] v.type = "dict" -> <<"{", "}">>

\* Python's None
None == "None"

\* str.strip(): leading and trailing whitespace removed
RECURSIVE lstrip(_)
lstrip(s) == IF s # <<>> /\ Head(s) = " " THEN lstrip(Tail(s)) ELSE s

RECURSIVE rstrip(_)
rstrip(s) ==
    IF s # <<>> /\ s[Len(s)] = " " THEN rstrip(SubSeq(s, 1, Len(s) - 1)) ELSE s

strip(s) == rstrip(lstrip(s))

\* str.casefold(), on the alphabet
casefold(s) == [j \in 1..Len(s) |-> IF s[j] = "A" THEN "a" ELSE s[j]]

\* normalize_text with the strip() left out
normalize_text_unstripped(v) == casefold(py_str(v))

\* str(s).strip().casefold(), of a property value or of a mapping key
normalize_text(v) == casefold(strip(py_str(v)))

\* str.endswith("*")
endswith_star(s) == Len(s) > 0 /\ s[Len(s)] = "*"

\* s[:-1]
but_last(s) == SubSeq(s, 1, Len(s) - 1)

\* str.startswith(p)
startswith(s, p) == Len(p) <= Len(s) /\ SubSeq(s, 1, Len(p)) = p

\* ------------------------------------------------------------- rules
\* the fallback of icon_rules.get("default", ...)
DefaultRule == [icon |-> "map-marker", prefix |-> "fa"]

\* the rule of the j-th mapping entry: pairwise distinct, so that a returned
\* rule identifies the entry it came from
EntryRule(j) ==
    IF j % 2 = 1
    THEN [icon_url |-> [kind |-> "file_id", ref |-> <<"id", j>>],
          icon_size |-> <<28, 28>>]
    ELSE [icon |-> <<"sym", j>>, prefix |-> "fa"]

\* dict.get(key, dflt) on a dict held as a sequence of [k, v] items
dict_has(d, key) == \E j \in 1..Len(d) : d[j].k = key

dict_get(d, key, dflt) ==
    IF dict_has(d, key)
    THEN d[CHOOSE j \in 1..Len(d) : d[j].k = key].v
    ELSE dflt

\* {normalize_text(k): v for k, v in mapping.items()}: every entry of the
\* mapping, a later entry replacing an earlier one of the same normalized key
RECURSIVE norm_exact(_, _)
norm_exact(mapping, n) ==
    IF n = 0
    THEN [x \in {} |-> DefaultRule]
    ELSE LET d  == norm_exact(mapping, n - 1)
             nk == normalize_text(Str(mapping[n].k))
         IN  [x \in DOMAIN d \cup {nk} |-> IF x = nk THEN mapping[n].v ELSE d[x]]

\* for k_raw, rule in mapping.items(): the first entry, from position n on,
\* whose key ends in "*" and whose normalized prefix starts val
RECURSIVE wildcard_scan(_, _, _, _)
wildcard_scan(mapping, val, n, default) ==
    IF n > Len(mapping)
    THEN default
    ELSE IF endswith_star(mapping[n].k)
            /\ startswith(val, normalize_text(Str(but_last(mapping[n].k))))
         THEN mapping[n].v
         ELSE wildcard_scan(mapping, val, n + 1, default)

\* icon_for_feature with the test of line 64 left out: an absent field reads
\* as the empty value
icon_for_feature_unguarded(p, rules) ==
    LET val == normalize_text(dict_get(p, rules.field, Str(<<>>)))
        ne  == norm_exact(rules.mapping, Len(rules.mapping))
    IN  IF val \in DOMAIN ne
        THEN ne[val]
        ELSE wildcard_scan(rules.mapping, val, 1, rules.default)

icon_for_feature(p, rules) ==
    LET field   == rules.field
        mapping == rules.mapping
        default == rules.default
    IN  IF field \in {None, ""} \/ ~dict_has(p, field)
        THEN default
        ELSE LET val == normalize_text(dict_get(p, field, Str(<<>>)))
                 ne  == norm_exact(mapping, Len(mapping))
             IN  IF val \in DOMAIN ne
                 THEN ne[val]
                 ELSE wildcard_scan(mapping, val, 1, default)

\* ------------------------------------------------------------- popup
\* json.dumps(v, ensure_ascii=False) of a nested value
json_dumps(v) ==
    CASE v.type = "list" -> Str(<<"[", "]">>)
      [] v.type = "dict" -> Str(<<"{", "}">>)

\* lines 85-87: one row, a nested value serialized first
popup_row(k, v) ==
    LET shown == IF v.type \in {"dict", "list"} THEN json_dumps(v) ELSE v
    IN  [th |-> k, td |-> py_str(shown)]

\* the list rows after the first n items of props.items()
RECURSIVE popup_rows(_, _)
popup_rows(p, n) ==
    IF n = 0
    THEN <<>>
    ELSE IF p[n].k = "geometry"
         THEN popup_rows(p, n - 1)
         ELSE Append(popup_rows(p, n - 1), popup_row(p[n].k, p[n].v))

\* all_fields_popup_html with the geometry test left out
all_fields_popup_html_every_key(p) ==
    [table |-> [j \in 1..Len(p) |-> popup_row(p[j].k, p[j].v)]]

\* "<table>" + "".join(rows) + "</table>"
all_fields_popup_html(p) == [table |-> popup_rows(p, Len(p))]

\* ------------------------------------------------------------- inputs
\* the mapping of n entries whose keys are ks[1], ..., ks[n], in this order
MappingOf(ks, n) == [j \in 1..n |-> [k |-> ks[j], v |-> EntryRule(j)]]

\* the properties of one feature, as far as the resolver reads them: no
\* property, or the one property "Brand"
PropsSets ==
    {<<>>} \cup {<<[k |-> "Brand", v |-> Str(s)]>> : s \in Texts}
          \cup {<<[k |-> "Brand", v |-> EmptyList]>>}

\* the same with values of at most one character
ShortPropsSets == {p \in PropsSets : p = <<>> \/ Len(py_str(p[1].v)) <= 1}

\* ------------------------------------------------------------- resolver
\* the variables of the marker loop, before any call
MarkersIdle ==
    /\ features = <<>>
    /\ embed_icons = TRUE
    /\ idx = 0
    /\ target_layer = <<>>
    /\ icon_gets = <<>>

\* the variables of generate_webmap, before any call
GenerateIdle ==
    /\ urls = [kml |-> "http", points |-> "http"]
    /\ pts_rows = <<>>
    /\ io_log = <<>>
    /\ exc = None
    /\ saved = <<>>
    /\ out_html = <<>>

\* a rule set whose field is set is applied to every value; one whose field
\* is unset, to the short values
InitResolve ==
    /\ MarkersIdle
    /\ GenerateIdle
    /\ \E n \in 0..MaxRules : \E ks \in [1..n -> KeyTexts] :
          /\ \A a, b \in 1..n : a # b => ks[a] # ks[b]
          /\ \E f \in {None, "Brand"} :
                /\ icon_rules = [field |-> f, mapping |-> MappingOf(ks, n),
                                 default |-> DefaultRule]
                /\ props \in IF f = None THEN ShortPropsSets ELSE PropsSets
    /\ result = None
    /\ pc = "resolve"

Resolve ==
    /\ pc = "resolve"
    /\ result' = icon_for_feature(props, icon_rules)
    /\ pc' = "resolved"
    /\ UNCHANGED <<icon_rules, props, markerVars, generateVars>>

NextResolve == Resolve

SpecResolve == InitResolve /\ [][NextResolve]_vars

\* ------------------------------------------------------------- popup inputs
\* most properties of a formatted dict
MaxProps == 3

PropNames == {"geometry", "Brand", "Name", "tags"}

PopupValues == {Str(<<"a">>), Str(<<" ">>), EmptyList, EmptyDict}

InitPopup ==
    /\ MarkersIdle
    /\ GenerateIdle
    /\ icon_rules = [field |-> None, mapping |-> <<>>, default |-> DefaultRule]
    /\ \E n \in 0..MaxProps : \E ks \in [1..n -> PropNames] :
          /\ \A a, b \in 1..n : a # b => ks[a] # ks[b]
          /\ \E vs \in [1..n -> PopupValues] :
                props = [j \in 1..n |-> [k |-> ks[j], v |-> vs[j]]]
    /\ result = None
    /\ pc = "format"

Format ==
    /\ pc = "format"
    /\ result' = all_fields_popup_html(props)
    /\ pc' = "formatted"
    /\ UNCHANGED <<icon_rules, props, markerVars, generateVars>>

NextPopup == Format

SpecPopup == InitPopup /\ [][NextPopup]_vars

\* ------------------------------------------------------------- icon addresses
\* An icon reference is a bare Drive file id (it matches [A-Za-z0-9_-]{20,}),
\* a Drive share link (it contains "drive.google.com" and /file/d/<id>/) or
\* any other address.
FileId(ref) == [kind |-> "file_id", ref |-> ref]
DriveLink(ref) == [kind |-> "drive_link", ref |-> ref]
Http(ref) == [kind |-> "http", ref |-> ref]

\* extract_drive_id: the id of a share link, "" when there is none
extract_drive_id(url) == IF url.kind = "drive_link" THEN url.ref ELSE ""

\* drive_to_direct: the thumbnail address of a file id at size_px
drive_to_direct(url_or_id, size_px) ==
    LET fid == IF url_or_id.kind = "file_id"
               THEN url_or_id.ref
               ELSE IF extract_drive_id(url_or_id) # ""
                    THEN extract_drive_id(url_or_id)
                    ELSE url_or_id.ref
    IN  [kind |-> "thumbnail", ref |-> fid, sz |-> size_px]

\* url_to_data_uri, when the GET succeeds: the bytes of url, inlined (the
\* MIME type read from their first bytes is not kept)
url_to_data_uri(url) == [kind |-> "data", of |-> url]

max2(sz) == IF sz[1] >= sz[2] THEN sz[1] ELSE sz[2]

\* rule.get("icon_size", list(icon_size_default))
icon_size_of(rule, icon_size_default) ==
    IF "icon_size" \in DOMAIN rule THEN rule.icon_size ELSE icon_size_default

\* lines 101-107: the fetchable address of an image rule
direct_of(rule, icon_size_default) ==
    IF rule.icon_url.kind \in {"drive_link", "file_id"}
    THEN drive_to_direct(rule.icon_url,
                         max2(icon_size_of(rule, icon_size_default)))
    ELSE rule.icon_url

\* ------------------------------------------------------------- marker loop
\* what one requests.get can do
FetchOutcomes == {"ok", "Timeout", "HTTPError"}

\* an except clause for requests' Timeout alone
caught_timeout_only(outcome) == outcome = "Timeout"

\* line 112, except Exception: every failure of url_to_data_uri is caught
caught(outcome) == outcome \in {"Timeout", "HTTPError"}

\* lines 109-115 with a second GET after a failed one
icon_source_retrying(direct, embed, outcome) ==
    LET get == [url |-> direct, outcome |-> outcome]
    IN  IF embed
        THEN IF outcome = "ok"
             THEN [src |-> url_to_data_uri(direct), gets |-> <<get>>, raised |-> None]
             ELSE [src |-> direct, gets |-> <<get, get>>, raised |-> None]
        ELSE [src |-> direct, gets |-> <<>>, raised |-> None]

\* lines 109-115: the icon source, the GETs made for it, and the exception
\* that leaves the try statement (None when there is none)
icon_source(direct, embed, outcome) ==
    LET get == [url |-> direct, outcome |-> outcome]
    IN  IF embed
        THEN IF outcome = "ok"
             THEN [src |-> url_to_data_uri(direct), gets |-> <<get>>, raised |-> None]
             ELSE IF caught(outcome)
                  THEN [src |-> direct, gets |-> <<get>>, raised |-> None]
                  ELSE [src |-> direct, gets |-> <<get>>, raised |-> outcome]
        ELSE [src |-> direct, gets |-> <<>>, raised |-> None]

\* line 93 without the geom_type test
skipped_unless_point_typed(geom) == geom.is_none \/ geom.is_empty

\* line 93: geom is None or geom.is_empty or geom.geom_type != "Point"
skipped(geom) == geom.is_none \/ geom.is_empty \/ geom.geom_type # "Point"

\* the default of the parameter icon_size_default
IconSizeDefault == <<28, 28>>

\* the row the loop visits next, and what lines 95-98 compute from it
Row == features[idx + 1]
RowRule == icon_for_feature(Row.props, icon_rules)
RowPopup == all_fields_popup_html(Row.props)
RowLocation == <<Row.geometry.y, Row.geometry.x>>

InLoop == pc = "markers" /\ idx < Len(features)

\* line 94: continue
SkipRow ==
    /\ InLoop
    /\ skipped(Row.geometry)
    /\ idx' = idx + 1
    /\ UNCHANGED <<resolverVars, features, embed_icons, target_layer, icon_gets,
                   generateVars, pc>>

\* lines 120-124: a rule without icon_url gives a folium.Icon marker
PlaceSymbolic ==
    /\ InLoop
    /\ ~skipped(Row.geometry)
    /\ "icon_url" \notin DOMAIN RowRule
    /\ target_layer' = Append(target_layer,
           [location |-> RowLocation, popup |-> RowPopup,
            icon |-> [icon |-> RowRule.icon, prefix |-> RowRule.prefix]])
    /\ idx' = idx + 1
    /\ UNCHANGED <<resolverVars, features, embed_icons, icon_gets, generateVars, pc>>

\* lines 100-118: a rule with icon_url gives a CustomIcon marker, its source
\* fetched and inlined when embed_icons is set
PlaceImage ==
    /\ InLoop
    /\ ~skipped(Row.geometry)
    /\ "icon_url" \in DOMAIN RowRule
    /\ \E outcome \in IF embed_icons THEN FetchOutcomes ELSE {"no request"} :
          LET direct == direct_of(RowRule, IconSizeDefault)
              got    == icon_source(direct, embed_icons, outcome)
          IN  /\ icon_gets' = icon_gets \o
                     [j \in 1..Len(got.gets) |->
                         [row |-> idx + 1, url |-> got.gets[j].url,
                          outcome |-> got.gets[j].outcome]]
              /\ IF got.raised = None
                 THEN /\ target_layer' = Append(target_layer,
                             [location |-> RowLocation, popup |-> RowPopup,
                              icon |-> [custom |-> got.src,
                                        icon_size |-> icon_size_of(RowRule,
                                                         IconSizeDefault)]])
                      /\ idx' = idx + 1
                      /\ UNCHANGED <<exc, pc>>
                 ELSE /\ exc' = got.raised
                      /\ pc' = "raised"
                      /\ UNCHANGED <<target_layer, idx>>
    /\ UNCHANGED <<resolverVars, features, embed_icons, urls, pts_rows, io_log,
                   saved, out_html>>

\* the loop is over: add_points_markers returns
ReturnMarkers ==
    /\ pc = "markers"
    /\ idx = Len(features)
    /\ pc' = "placed"
    /\ UNCHANGED <<resolverVars, markerVars, generateVars>>

\* ------------------------------------------------------------- marker loop inputs
\* most rows of the GeoDataFrame
MaxFeatures == 2

\* a rule set with an exact pattern and a wildcard pattern, both image rules
\* (a Drive file id with its own size, and a plain address), and the
\* symbolic default
MarkerRules ==
    [field   |-> "Brand",
     mapping |-> <<[k |-> <<"A">>,
                    v |-> [icon_url |-> FileId("F1"), icon_size |-> <<28, 40>>]],
                   [k |-> <<"A", "*">>,
                    v |-> [icon_url |-> Http("U2")]]>>,
     default |-> DefaultRule]

\* the geometry of row j: missing, an empty point, a point, a line, a polygon
Geometries(j) ==
    {[is_none |-> FALSE, is_empty |-> e, geom_type |-> "Point",
      x |-> j, y |-> 100 + j] : e \in BOOLEAN}
    \cup {[is_none |-> TRUE, is_empty |-> FALSE, geom_type |-> "None",
           x |-> j, y |-> 100 + j]}
    \cup {[is_none |-> FALSE, is_empty |-> FALSE, geom_type |-> t,
           x |-> j, y |-> 100 + j] : t \in {"LineString", "Polygon"}}

\* the values of the one property column: the exact pattern in another
\* casing, a value under the wildcard, a value under no pattern
ColumnValues == {Str(<<"a">>), Str(<<"a", "a">>), Str(<<" ">>)}

\* n rows with the same one column ("Brand" or "Name"); within tells
\* whether the row lies within the boundary, which a missing or an empty
\* geometry never does
FeatureSets(n, column, withins) ==
    {[j \in 1..n |-> [geometry |-> gs[j], within |-> ws[j],
                      props |-> <<[k |-> column, v |-> vs[j]]>>]] :
        gs \in {g \in [1..n -> UNION {Geometries(j) : j \in 1..n}] :
                    \A j \in 1..n : g[j] \in Geometries(j)},
        vs \in [1..n -> ColumnValues],
        ws \in [1..n -> withins]}

InitMarkers ==
    /\ GenerateIdle
    /\ icon_rules = MarkerRules
    /\ props = <<>>
    /\ result = None
    /\ \E n \in 0..MaxFeatures : \E column \in {"Brand", "Name"} :
          features \in FeatureSets(n, column, {TRUE})
    /\ embed_icons \in BOOLEAN
    /\ idx = 0
    /\ target_layer = <<>>
    /\ icon_gets = <<>>
    /\ pc = "markers"

NextMarkers == SkipRow \/ PlaceSymbolic \/ PlaceImage \/ ReturnMarkers

SpecMarkers == InitMarkers /\ [][NextMarkers]_vars

\* ------------------------------------------------------------- generate_webmap
\* what download_any can meet: gdown.download on a Drive link, requests.get
\* and raise_for_status on any other address
DownloadOutcomes(kind) ==
    IF kind = "drive"
    THEN {"ok", "FileURLRetrievalError"}
    ELSE {"ok", "ConnectionError", "HTTPError"}

\* download_any without raise_for_status: an error status goes unnoticed
download_raises_unchecked(kind, outcome) == outcome \notin {"ok", "HTTPError"}

\* lines 22, 24, 25: gdown.download, requests.get and raise_for_status raise
download_raises(kind, outcome) == outcome # "ok"

\* what gpd.read_file can meet
ReadOutcomes == {"ok", "DriverError"}

\* str.replace(" ", "_")
replace_spaces(s) == [j \in 1..Len(s) |-> IF s[j] = " " THEN "_" ELSE s[j]]

\* line 223: f"{ns_id}_{site_name}.html".replace(" ", "_")
html_name(ns_id, site_name) ==
    replace_spaces(ns_id \o <<"_">> \o site_name \o <<".html">>)

\* the arguments ns_id and site_name
NsId == <<"A">>
SiteName == <<"a", " ", "a">>

\* pts[pts.within(geom)]: the rows within the boundary, in order
RECURSIVE select_within(_, _)
select_within(rows, n) ==
    IF n = 0
    THEN <<>>
    ELSE IF rows[n].within
         THEN Append(select_within(rows, n - 1), rows[n])
         ELSE select_within(rows, n - 1)

\* the caller passes the rule set, so line 211 keeps it
InitGenerate ==
    /\ MarkersIdle
    /\ icon_rules = MarkerRules
    /\ props = <<>>
    /\ result = None
    /\ urls \in [kml : {"drive", "http"}, points : {"drive", "http"}]
    /\ \E n \in 0..MaxFeatures : \E column \in {"Brand", "Name"} :
          /\ pts_rows \in FeatureSets(n, column, BOOLEAN)
          /\ \A j \in 1..n :
                pts_rows[j].within =>
                    ~pts_rows[j].geometry.is_none /\ ~pts_rows[j].geometry.is_empty
    /\ io_log = <<>>
    /\ exc = None
    /\ saved = <<>>
    /\ out_html = <<>>
    /\ pc = "download_kml"

\* one call of download_any, from line 148 or 149
download_any(src, at, next) ==
    /\ pc = at
    /\ \E outcome \in DownloadOutcomes(urls[src]) :
          /\ io_log' = Append(io_log, [op |-> "download", src |-> src,
                                        outcome |-> outcome])
          /\ IF download_raises(urls[src], outcome)
             THEN exc' = outcome /\ pc' = "raised"
             ELSE exc' = exc /\ pc' = next
    /\ UNCHANGED <<resolverVars, markerVars, urls, pts_rows, saved, out_html>>

\* line 148
DownloadKml == download_any("kml", "download_kml", "download_points")

\* line 149
DownloadPoints == download_any("points", "download_points", "read_kml")

\* line 152
ReadKml ==
    /\ pc = "read_kml"
    /\ \E outcome \in ReadOutcomes :
          /\ io_log' = Append(io_log, [op |-> "read", src |-> "kml",
                                        outcome |-> outcome])
          /\ IF outcome # "ok"
             THEN exc' = outcome /\ pc' = "raised"
             ELSE exc' = exc /\ pc' = "read_points"
    /\ UNCHANGED <<resolverVars, markerVars, urls, pts_rows, saved, out_html>>

\* lines 153-213: the points are read, the rows within the boundary selected,
\* the map and its layers built, and add_points_markers called with
\* embed_icons=True on a new layer
ReadPoints ==
    /\ pc = "read_points"
    /\ \E outcome \in ReadOutcomes :
          /\ io_log' = Append(io_log, [op |-> "read", src |-> "points",
                                        outcome |-> outcome])
          /\ IF outcome # "ok"
             THEN /\ exc' = outcome /\ pc' = "raised"
                  /\ UNCHANGED features
             ELSE /\ exc' = exc /\ pc' = "markers"
                  /\ features' = select_within(pts_rows, Len(pts_rows))
    /\ embed_icons' = TRUE
    /\ idx' = 0
    /\ target_layer' = <<>>
    /\ UNCHANGED <<resolverVars, icon_gets, urls, pts_rows, saved, out_html>>

\* lines 214-225: the layer is added, the map saved, the file name returned
SaveAndReturn ==
    /\ pc = "placed"
    /\ saved' = Append(saved, html_name(NsId, SiteName))
    /\ out_html' = Append(out_html, html_name(NsId, SiteName))
    /\ pc' = "done"
    /\ UNCHANGED <<resolverVars, markerVars, urls, pts_rows, io_log, exc>>

NextGenerate ==
    \/ DownloadKml \/ DownloadPoints \/ ReadKml \/ ReadPoints
    \/ SkipRow \/ PlaceSymbolic \/ PlaceImage \/ ReturnMarkers
    \/ SaveAndReturn

SpecGenerate == InitGenerate /\ [][NextGenerate]_vars

\* ------------------------------------------------------------- the formatter's properties
\* the positions of props that do not hold the geometry, in order
RECURSIVE PositionsBut(_, _)
PositionsBut(p, name) ==
    IF p = <<>>
    THEN <<>>
    ELSE LET rest == PositionsBut(SubSeq(p, 1, Len(p) - 1), name)
         IN  IF p[Len(p)].k = name THEN rest ELSE Append(rest, Len(p))

\* C8: the table has exactly one row per property other than "geometry", in
\* the insertion order of the properties, and none for the geometry.
C8_RowsInInsertionOrder ==
    pc = "formatted" =>
        LET pos == PositionsBut(props, "geometry")
        IN  /\ Len(result.table) = Len(pos)
            /\ \A j \in 1..Len(pos) : result.table[j].th = props[pos[j]].k
            /\ \A j \in 1..Len(result.table) : result.table[j].th # "geometry"

\* C8's case: the geometry sits between two other properties, which come
\* out as the two rows, in their order
C8_Witness ==
    /\ pc = "formatted"
    /\ Len(props) = 3 /\ props[2].k = "geometry"
    /\ Len(result.table) = 2
    /\ result.table[1].th = props[1].k /\ result.table[2].th = props[3].k

\* ------------------------------------------------------------- the resolver's properties
\* The properties state trimming and case folding on their own, by positions.
Lower(c) == IF c = "A" THEN "a" ELSE c

NonBlank(s) == {j \in 1..Len(s) : s[j] # " "}

MinOf(S) == CHOOSE x \in S : \A y \in S : x <= y

MaxOf(S) == CHOOSE x \in S : \A y \in S : y <= x

Canon(s) ==
    IF NonBlank(s) = {}
    THEN <<>>
    ELSE LET lo == MinOf(NonBlank(s))
             hi == MaxOf(NonBlank(s))
         IN  [j \in 1..(hi - lo + 1) |-> Lower(s[lo + j - 1])]

IsPrefix(p, s) == Len(p) <= Len(s) /\ \A j \in 1..Len(p) : s[j] = p[j]

TheMapping == icon_rules.mapping

\* the discriminator field is set and is a property of the feature
FieldPresent ==
    /\ icon_rules.field = "Brand"
    /\ \E j \in 1..Len(props) : props[j].k = "Brand"

\* the feature's discriminator value, as text, trimmed and case-folded
TheValue == Canon(py_str(props[1].v))

IsWildcardKey(key) == key # <<>> /\ key[Len(key)] = "*"

\* every entry (of either kind) whose whole key is, trimmed and folded, the value
SameKeyEntries == {j \in 1..Len(TheMapping) : Canon(TheMapping[j].k) = TheValue}

\* the exact patterns equal to the value
ExactEntries == {j \in SameKeyEntries : ~IsWildcardKey(TheMapping[j].k)}

\* the wildcard patterns whose prefix starts the value
WildcardEntries ==
    {j \in 1..Len(TheMapping) :
        /\ IsWildcardKey(TheMapping[j].k)
        /\ IsPrefix(Canon(SubSeq(TheMapping[j].k, 1, Len(TheMapping[j].k) - 1)),
                    TheValue)}

Resolved == pc = "resolved"

\* C1: a value that matches the prefix of one or more wildcard patterns and
\* equals no exact pattern gets the rule of the first matching wildcard in
\* declaration order. (The code returns a later wildcard whose whole key,
\* marker included, equals the value.)
C1_FirstDeclaredWildcard ==
    (Resolved /\ FieldPresent /\ WildcardEntries # {} /\ ExactEntries = {})
        => result = TheMapping[MinOf(WildcardEntries)].v

C3_ExactBeforeWildcard ==
    (Resolved /\ FieldPresent /\ ExactEntries # {} /\ WildcardEntries # {})
        => result \in {TheMapping[j].v : j \in ExactEntries}

\* C4: an unset discriminator field, or one that is no property of the
\* feature, gives the default rule, whatever the mapping holds.
C4_AbsentFieldDefault ==
    (Resolved /\ ~FieldPresent) => result = icon_rules.default

\* C4's case: the field is set, the feature has no such property, and the
\* mapping holds a bare wildcard and an empty-string pattern
C4_Witness ==
    /\ Resolved
    /\ icon_rules.field = "Brand" /\ props = <<>>
    /\ \E a, b \in 1..Len(TheMapping) :
          TheMapping[a].k = <<"*">> /\ TheMapping[b].k = <<>>
    /\ result = icon_rules.default

\* C9: a key ending in the wildcard marker is never matched by equality, so
\* a value equal to no non-wildcard pattern is decided by the wildcard scan
\* alone: the first declared matching wildcard, else the default.
C9_WildcardKeyNeverExact ==
    (Resolved /\ FieldPresent /\ ExactEntries = {})
        => result = IF WildcardEntries = {}
                    THEN icon_rules.default
                    ELSE TheMapping[MinOf(WildcardEntries)].v

\* ------------------------------------------------------------- the marker loop's properties
\* a row with a geometry that is a non-empty Point
IsPointRow(f) ==
    /\ ~f.geometry.is_none
    /\ ~f.geometry.is_empty
    /\ f.geometry.geom_type = "Point"

\* the positions of the Point rows among the first n rows, in order
RECURSIVE PointPositions(_)
PointPositions(n) ==
    IF n = 0
    THEN <<>>
    ELSE IF IsPointRow(features[n])
         THEN Append(PointPositions(n - 1), n)
         ELSE PointPositions(n - 1)

\* the markers of row r on the layer (a row's longitude is its position)
MarkersOfRow(r) == {m \in 1..Len(target_layer) : target_layer[m].location[2] = r}

\* the GETs made for row r
GetsOfRow(r) == {g \in 1..Len(icon_gets) : icon_gets[g].row = r}

\* C5: a row whose geometry is missing, empty or not a Point adds no marker
\* and raises nothing, every Point row adds exactly one, and the layer holds
\* the markers of the Point rows visited so far, in the order of the rows;
\* when the loop returns, every row has been visited.
C5_OneMarkerPerPointInOrder ==
    LET pts == PointPositions(idx)
    IN  /\ exc = None /\ pc # "raised"
        /\ Len(target_layer) = Len(pts)
        /\ \A j \in 1..Len(pts) :
              target_layer[j].location =
                  <<features[pts[j]].geometry.y, features[pts[j]].geometry.x>>
        /\ pc \in {"placed", "done"} => idx = Len(features)

\* C5's case: a line, then a point; the loop has returned with the one
\* marker of the point
C5_Witness ==
    /\ pc = "placed"
    /\ Len(features) = 2
    /\ features[1].geometry.geom_type = "LineString"
    /\ IsPointRow(features[2])
    /\ Len(target_layer) = 1
    /\ target_layer[1].location = <<102, 2>>

\* C6: a failed GET of a row's icon never leaves add_points_markers; the row
\* has its marker, with the direct address as the icon source; the rows
\* after it are visited all the same, and a row whose own GET succeeds has
\* the inlined image as its icon source, whatever failed before it.
C6_FetchFailureDegrades ==
    /\ exc = None /\ pc # "raised"
    /\ \A g \in 1..Len(icon_gets) :
          /\ MarkersOfRow(icon_gets[g].row) # {}
          /\ \A m \in MarkersOfRow(icon_gets[g].row) :
                /\ "custom" \in DOMAIN target_layer[m].icon
                /\ target_layer[m].icon.custom =
                      IF icon_gets[g].outcome = "ok"
                      THEN [kind |-> "data", of |-> icon_gets[g].url]
                      ELSE icon_gets[g].url
    /\ pc \in {"placed", "done"} =>
          /\ idx = Len(features)
          /\ \A r \in 1..Len(features) :
                IsPointRow(features[r]) <=> MarkersOfRow(r) # {}

\* C6's case: embed_icons is set, the GET of the first row fails with an
\* HTTP error, the GET of the second succeeds; both markers are on the layer
C6_Witness ==
    /\ pc = "placed" /\ embed_icons
    /\ Len(icon_gets) = 2
    /\ icon_gets[1].row = 1 /\ icon_gets[1].outcome = "HTTPError"
    /\ icon_gets[2].row = 2 /\ icon_gets[2].outcome = "ok"
    /\ Len(target_layer) = 2
    /\ target_layer[1].icon.custom = icon_gets[1].url
    /\ target_layer[2].icon.custom = [kind |-> "data", of |-> icon_gets[2].url]

\* C10: a row causes at most one GET, so a failed GET is not repeated; a row
\* that is skipped, or whose rule has no icon_url, causes none, and no row
\* causes any when embed_icons is false.
C10_AtMostOneFetchPerRow ==
    /\ \A r \in 1..Len(features) : Cardinality(GetsOfRow(r)) <= 1
    /\ \A g \in 1..Len(icon_gets) :
          /\ embed_icons
          /\ icon_gets[g].row \in 1..idx
          /\ IsPointRow(features[icon_gets[g].row])
          /\ "icon_url" \in
                DOMAIN icon_for_feature(features[icon_gets[g].row].props, icon_rules)

\* C10's case: embed_icons is set; the first row's GET failed and was the
\* only one, the second row has the symbolic default and caused none
C10_Witness ==
    /\ pc = "placed" /\ embed_icons
    /\ Len(features) = 2 /\ Len(target_layer) = 2
    /\ Len(icon_gets) = 1
    /\ icon_gets[1].row = 1 /\ icon_gets[1].outcome = "Timeout"
    /\ "icon" \in DOMAIN target_layer[2].icon

\* ------------------------------------------------------------- generate_webmap's properties
\* the downloads and reads that failed
FailedIO == {j \in 1..Len(io_log) : io_log[j].outcome # "ok"}

PointsDownloaded ==
    \E j \in 1..Len(io_log) : io_log[j].op = "download" /\ io_log[j].src = "points"

\* a failed download or read is the last thing generate_webmap did: its
\* error is the one that leaves, nothing was placed, fetched, saved or returned
AbortsOnFailure ==
    FailedIO # {} =>
        /\ FailedIO = {Len(io_log)}
        /\ pc = "raised"
        /\ exc = io_log[Len(io_log)].outcome
        /\ target_layer = <<>> /\ icon_gets = <<>>
        /\ saved = <<>> /\ out_html = <<>>

\* C7, as claimed: a failed download or read of either file aborts the
\* generation, and a failure on the boundary file comes before the points
\* source is downloaded at all.
C7_AbortAndBoundaryFirst_Original ==
    /\ AbortsOnFailure
    /\ \A j \in FailedIO : io_log[j].src = "kml" => ~PointsDownloaded

\* C7, amended: a failed download or read of either file aborts the
\* generation; a failed download of the boundary file comes before the
\* points source is downloaded, a failed read of the boundary file comes
\* after the points source has been downloaded.
C7_AbortAndDownloadOrder ==
    /\ AbortsOnFailure
    /\ \A j \in FailedIO :
          io_log[j].src = "kml" =>
              (PointsDownloaded <=> io_log[j].op = "read")
    /\ out_html # <<>> => saved = out_html /\ FailedIO = {}

\* C7's case: the boundary file was downloaded and fails to parse; the
\* error has left generate_webmap, the points were downloaded before it
C7_Witness ==
    /\ pc = "raised"
    /\ exc = "DriverError"
    /\ Len(io_log) = 3
    /\ io_log[3].op = "read" /\ io_log[3].src = "kml"
    /\ PointsDownloaded
    /\ saved = <<>> /\ out_html = <<>> /\ target_layer = <<>>

====
